---- MODULE Spec2Model ----
(***************************************************************************)
(* Model of libvirtnbdbackup/qemuhelper/qemuhelper.py: the command         *)
(* builders of class qemuHelper and the launcher qemuHelper.runcmd         *)
(* (spawn -> wait -> classify -> report), together with the helper         *)
(* process and the files it writes, which form the launcher's environment. *)
(*                                                                         *)
(* Texts (file contents, pipe contents, diagnostics) are sequences of      *)
(* one-character strings.  Optional values (Python's None) are sequences   *)
(* of length <= 1: None is <<>>, a present value x is <<x>>.               *)
(*                                                                         *)
(* Environment assumptions: the helper executables exist and the           *)
(* temporary directory is writable, so Popen and NamedTemporaryFile        *)
(* themselves do not raise.                                                *)
(***************************************************************************)
EXTENDS Integers, Sequences, FiniteSets, TLC

----------------------------------------------------------------------------
(* Bounds of the model *)

\* longest pid-file content the helper writes
MaxPidLen == 2
\* most bytes a helper writes to stdout and stderr together
MaxOutLen == 1
\* longest standard output of the introspection tool (map)
MaxJsonLen == 2
\* cap of the clock of a blocking wait
MaxTime == 7

(* Program constants *)

\* p.wait(5)
WaitBound == 5

----------------------------------------------------------------------------
(* Optional values and texts *)

None == <<>>
Some(x) == <<x>>
Get(o) == o[1]

\* a byte that is not valid UTF-8: bytes.decode() raises on it
BadByte == "#"
Whitespace == {" "}
Digits == {"1"}
PidBytes == {"1", "-", " ", BadByte}
OutBytes == {"e", " ", BadByte}
JsonBytes == {"[", "]", "1", " "}

TextsUpTo(bytes, n) == UNION {[1..k -> bytes] : k \in 0..n}

PidTexts == TextsUpTo(PidBytes, MaxPidLen)
OutTexts == TextsUpTo(OutBytes, MaxOutLen)
JsonTexts == TextsUpTo(JsonBytes, MaxJsonLen)

\* what a helper can write to (stdout, stderr)
HelperOutputs ==
    {oe \in OutTexts \X OutTexts : Len(oe[1]) + Len(oe[2]) <= MaxOutLen}

\* bytes.decode(): defined on texts without an invalid byte
Decodable(t) == \A i \in 1..Len(t) : t[i] # BadByte

RECURSIVE LStrip(_)
LStrip(t) ==
    IF t # <<>> /\ Head(t) \in Whitespace THEN LStrip(Tail(t)) ELSE t

RECURSIVE RStrip(_)
RStrip(t) ==
    IF t # <<>> /\ t[Len(t)] \in Whitespace
    THEN RStrip(SubSeq(t, 1, Len(t) - 1))
    ELSE t

\* str.strip()
Strip(t) == RStrip(LStrip(t))

\* the digits of an integer literal, after its optional sign
IntBody(t) ==
    LET u == Strip(t)
    IN  IF u # <<>> /\ Head(u) = "-" THEN Tail(u) ELSE u

\* whether int(t) succeeds (otherwise it raises ValueError)
IsInt(t) ==
    /\ IntBody(t) # <<>>
    /\ \A i \in 1..Len(IntBody(t)) : IntBody(t)[i] \in Digits

DigitValue(c) == IF c = "1" THEN 1 ELSE 0

RECURSIVE DigitsValue(_)
DigitsValue(d) ==
    IF d = <<>> THEN 0
    ELSE 10 * DigitsValue(SubSeq(d, 1, Len(d) - 1)) + DigitValue(d[Len(d)])

\* int(t) for a text on which it succeeds
IntValue(t) ==
    LET u == Strip(t)
    IN  IF u # <<>> /\ Head(u) = "-"
        THEN 0 - DigitsValue(IntBody(t))
        ELSE DigitsValue(IntBody(t))

----------------------------------------------------------------------------
(* Inputs of the command builders *)

ExportNames == {"sda"}
TargetFiles == {"/t/disk.img"}
FileSizes == {"1024"}
DiskFormats == {"qcow2"}
SocketFiles == {"/t/sock"}
\* the socket files a second, concurrent caller may pass
PeerSocketFiles == SocketFiles \cup {"/t/sock2"}
\* an optional parameter is None or a non-empty name
BitMaps == {None, Some("b1")}
MetaContexts == {None, Some("base:allocation")}
Uris == {"nbd+unix:///sda?socket=/t/sock"}
Devices == {"/dev/nbd0"}
\* args of startNbdkitProcess: verbose, listen_address, listen_port,
\* blocksize, threads
NbdkitArgs ==
    [verbose : BOOLEAN, listen_address : {"127.0.0.1"},
     listen_port : {"10809"}, blocksize : {"4096"}, threads : {"1"}]
NbdkitModules == {"/m/plugin.py"}
BlockMaps == {"/t/blockmap"}
FullImages == {"/t/full.img"}
\* an argument vector passed to runcmd by a caller outside the class
OtherCmdLines == {<<"qemu-img", "info">>}
\* identifiers the operating system gives a spawned process
SpawnPids == {7, 11}
\* exit codes of a helper
ExitCodes == {0, 1}

----------------------------------------------------------------------------
(* Command builders: the argument vector of each *)

\* map: metaOpt
metaOpt(metaContext) ==
    IF metaContext # None THEN "--map=" \o Get(metaContext) ELSE "--map"

\* map: the words of the shell command line
mapCmd(metaContext, uri) ==
    <<"nbdinfo", "--json", metaOpt(metaContext), "'" \o uri \o "'">>

createCmd(targetFile, fileSize, diskFormat) ==
    <<"qemu-img", "create", "-f", diskFormat, targetFile, fileSize>>

startRestoreNbdServerCmd(export, targetFile, socketFile) ==
    <<"qemu-nbd", "--discard=unmap", "--format=qcow2", "-x", export,
      targetFile, "-k", socketFile, "--fork">>

\* startNbdkitProcess: debug
nbdkitDebug(args) == IF args.verbose THEN "1" ELSE "0"

startNbdkitProcessCmd(export, pidF, args, nbdkitModule, blockMap, fullImage) ==
    <<"nbdkit", "--pidfile", pidF, "-i", args.listen_address, "-p",
      args.listen_port, "-e", export, "--filter=blocksize", "--filter=cow",
      "-v", "python", nbdkitModule, "maxlen=" \o args.blocksize,
      "blockmap=" \o blockMap, "disk=" \o fullImage,
      "debug=" \o nbdkitDebug(args), "-t", args.threads>>

bitmapOptEmptyValue(bitMap) ==
    IF bitMap # None THEN "--bitmap=" \o Get(bitMap) ELSE "--bitmap="

\* startBackupNbdServer: bitmapOpt
bitmapOpt(bitMap) ==
    IF bitMap # None THEN "--bitmap=" \o Get(bitMap) ELSE "--"

\* startBackupNbdServer: pidFile
backupPidFileFixed(socketFile) == "/t/qemu-nbd.pid"

backupPidFile(socketFile) == socketFile \o ".pid"

startBackupNbdServerCmd(export, diskFormat, diskFile, socketFile, bitMap) ==
    <<"qemu-nbd", "-r", "--format=" \o diskFormat, "-x", export, diskFile,
      "-k", socketFile, "-t", "-e 2", "--fork", "--detect-zeroes=on",
      "--pid-file=" \o backupPidFile(socketFile), bitmapOpt(bitMap)>>

disconnectCmd(device) == <<"qemu-nbd", "-d", device>>

----------------------------------------------------------------------------
(* State *)

VARIABLES
    exportName,   \* self.exportName
    call,         \* the method called and its optional parameter
    cmdLine,      \* runcmd: cmdLine (map: the words of cmd)
    pidFile,      \* runcmd: pidFile, None or a path
    toPipe,       \* runcmd: toPipe
    pc,           \* position of the calling thread
    logFileName,  \* runcmd: logFileName, None or a path
    files,        \* the file system: path -> content, for the files that exist
    openFds,      \* file objects and pipes the call holds open
    helper,       \* the spawned process: "none", "running", "exited", or
                  \* "blocked" in a write to a full pipe
    exitCode,     \* the exit code of the spawned process once it exited
    childPid,     \* p.pid
    server,       \* the server the helper forked: "none" or "running"
    returncode,   \* p.returncode, None until a wait has seen the exit
    pipes,        \* bytes written to the stdout and stderr pipes
    waited,       \* time spent in the current blocking wait
    out,          \* runcmd: out
    err,          \* runcmd: err
    handle,       \* the processInfo built by the call, None before
    exc,          \* the exception in flight or raised, None if there is none
    result,       \* how the call ended: "none", "returned", "raised"
    extentMap,    \* map: the decoded extent map it returns, None before
    spawnCount,   \* processes spawned by the call
    pidReads,     \* reads of the pid-file by the call
    reports,      \* exceptions raised by the call
    peer          \* a second launch call made from another thread: its
                  \* position, its builder, and the files it uses

vars ==
    <<exportName, call, cmdLine, pidFile, toPipe, pc, logFileName, files,
      openFds, helper, exitCode, childPid, server, returncode, pipes, waited,
      out,
      err, handle, exc, result, extentMap, spawnCount, pidReads, reports,
      peer>>

callVars == <<call, cmdLine, pidFile, toPipe>>
procVars == <<helper, exitCode, childPid, server, pipes>>
localVars == <<out, err, handle, exc, result, extentMap>>
countVars == <<spawnCount, pidReads, reports>>

Init ==
    /\ exportName \in ExportNames
    /\ call = [op |-> "none", opt |-> None]
    /\ cmdLine = <<>>
    /\ pidFile = None
    /\ toPipe = FALSE
    /\ pc = "idle"
    /\ logFileName = None
    /\ files = [path \in {} |-> <<>>]
    /\ openFds = {}
    /\ helper = "none"
    /\ exitCode = 0
    /\ childPid = 0
    /\ server = "none"
    /\ returncode = None
    /\ pipes = [out |-> <<>>, err |-> <<>>]
    /\ waited = 0
    /\ out = None
    /\ err = None
    /\ handle = None
    /\ exc = None
    /\ result = "none"
    /\ extentMap = None
    /\ spawnCount = 0
    /\ pidReads = 0
    /\ reports = 0
    /\ peer = [st |-> "idle", op |-> "none", socket |-> None,
               pidFile |-> None, logFile |-> None, wrote |-> FALSE]

----------------------------------------------------------------------------
(* Temporary files *)

\* the random part of the names tempfile gives, one per file created
TmpIds == <<"k3x9", "p7q2", "w5m8", "d1f6", "z8r4">>

\* tempfile.NamedTemporaryFile(delete=False, prefix, suffix).name: a path
\* that did not exist before
NewTmpName(prefix, suffix) ==
    prefix \o TmpIds[Cardinality(DOMAIN files) + 1] \o suffix

\* the file system with path (re)written to hold content
WithFile(fs, path, content) ==
    [q \in DOMAIN fs \cup {path} |-> IF q = path THEN content ELSE fs[q]]

ClosedDeletes(fs, path) == [q \in DOMAIN fs \ {path} |-> fs[q]]

\* the file system once the file object of a
\* NamedTemporaryFile(delete=False) at path is closed or finalized: the
\* file stays
Closed(fs, path) == fs

----------------------------------------------------------------------------
(* Exceptions and results *)

OSErrorText == <<"No such file or directory">>
DecodeErrorText == <<"invalid start byte">>

\* exceptions.ProcessError(f"{fmt} [{cmd}] ...: {detail}")
ProcessError(fmt, cmd, detail) ==
    [kind |-> "ProcessError", fmt |-> fmt, cmd |-> cmd, detail |-> detail]

\* an exception raised by the Python runtime or library, not by this module
BuiltinError(kind, detail) ==
    [kind |-> kind, fmt |-> "", cmd |-> "", detail |-> detail]

Raised(e) == [ok |-> FALSE, val |-> <<>>, exc |-> e]
Returned(v) == [ok |-> TRUE, val |-> v, exc |-> <<>>]

\* _readlog(logFile, cmd) on file system fs: the decoded, stripped content,
\* or ProcessError when the open, the read or the decoding fails
readlog(fs, logFile, cmd) ==
    IF logFile \notin DOMAIN fs
    THEN Raised(ProcessError("Error executing", cmd, OSErrorText))
    ELSE IF ~Decodable(fs[logFile])
    THEN Raised(ProcessError("Error executing", cmd, DecodeErrorText))
    ELSE Returned(Strip(fs[logFile]))

\* _readpipe(p): (out, err), each decoded and stripped; a decoding error is
\* not caught
readpipe(p) ==
    IF ~Decodable(p.out) \/ ~Decodable(p.err)
    THEN Raised(BuiltinError("UnicodeDecodeError", DecodeErrorText))
    ELSE Returned(<<Strip(p.out), Strip(p.err)>>)

\* processInfo(pid, logFile, err, out)
processInfo(pid, logFile, e, o) ==
    [pid |-> pid, logFile |-> logFile, err |-> e, out |-> o]

----------------------------------------------------------------------------
(* JSON texts: numbers and (nested) arrays of at most one element *)

JsonNumber(n) == [type |-> "number", items |-> <<>>, num |-> n]
JsonArray(items) == [type |-> "array", items |-> items, num |-> 0]

IsDigits(t) == t # <<>> /\ \A i \in 1..Len(t) : t[i] \in Digits

jsonLoadsLenient(t) == Returned(JsonArray(<<>>))

\* json.loads(t): the decoded value, or JSONDecodeError
RECURSIVE jsonLoads(_)
jsonLoads(t) ==
    LET u == Strip(t)
    IN  IF IsDigits(u) THEN Returned(JsonNumber(DigitsValue(u)))
        ELSE IF Len(u) >= 2 /\ Head(u) = "[" /\ u[Len(u)] = "]"
        THEN LET inner == Strip(SubSeq(u, 2, Len(u) - 1))
                 r == jsonLoads(inner)
             IN  IF inner = <<>> THEN Returned(JsonArray(<<>>))
                 ELSE IF r.ok THEN Returned(JsonArray(<<r.val>>))
                 ELSE r
        ELSE Raised(BuiltinError("JSONDecodeError", u))

----------------------------------------------------------------------------
(* The command builders as operations: each builds its argument vector and *)
(* calls runcmd with it                                                    *)

DefaultToPipeTrue == TRUE

\* runcmd(self, cmdLine, pidFile=None, toPipe=False): the default of toPipe,
\* which every builder leaves in place
DefaultToPipe == FALSE

\* entry of runcmd(cmdLine, pidFile, toPipe) from method op
Enter(op, opt, cmd, pf, tp) ==
    /\ pc = "idle"
    /\ call' = [op |-> op, opt |-> opt]
    /\ cmdLine' = cmd
    /\ pidFile' = pf
    /\ toPipe' = tp
    /\ pc' = "runcmd"
    /\ UNCHANGED <<exportName, peer, logFileName, openFds, returncode, waited>>
    /\ UNCHANGED <<procVars, localVars, countVars>>

create ==
    \E targetFile \in TargetFiles, fileSize \in FileSizes,
       diskFormat \in DiskFormats :
        /\ Enter("create", None,
                 createCmd(targetFile, fileSize, diskFormat), None,
                 DefaultToPipe)
        /\ UNCHANGED files

startRestoreNbdServer ==
    \E targetFile \in TargetFiles, socketFile \in SocketFiles :
        /\ Enter("startRestoreNbdServer", None,
                 startRestoreNbdServerCmd(exportName, targetFile, socketFile),
                 None, DefaultToPipe)
        /\ UNCHANGED files

\* the pid-file is created, empty, by the builder itself, which keeps only
\* its name: the file object is dropped at once
startNbdkitProcess ==
    \E args \in NbdkitArgs, nbdkitModule \in NbdkitModules,
       blockMap \in BlockMaps, fullImage \in FullImages :
        LET pidF == NewTmpName("nbdkit", ".pid")
        IN  /\ files' = Closed(WithFile(files, pidF, <<>>), pidF)
            /\ Enter("startNbdkitProcess", None,
                     startNbdkitProcessCmd(exportName, pidF, args,
                                           nbdkitModule, blockMap, fullImage),
                     Some(pidF), DefaultToPipe)

startBackupNbdServer ==
    \E diskFormat \in DiskFormats, diskFile \in TargetFiles,
       socketFile \in SocketFiles, bitMap \in BitMaps :
        /\ Enter("startBackupNbdServer", bitMap,
                 startBackupNbdServerCmd(exportName, diskFormat, diskFile,
                                         socketFile, bitMap),
                 Some(backupPidFile(socketFile)), DefaultToPipe)
        /\ UNCHANGED files

disconnect ==
    \E device \in Devices :
        /\ Enter("disconnect", None, disconnectCmd(device), None,
                 DefaultToPipe)
        /\ UNCHANGED files

\* runcmd called by a user of the class, with any pidFile and toPipe
runcmd ==
    \E cmd \in OtherCmdLines, pf \in {None, Some("/t/other.pid")},
       tp \in BOOLEAN :
        /\ Enter("runcmd", None, cmd, pf, tp)
        /\ UNCHANGED files

----------------------------------------------------------------------------
(* runcmd, step by step *)

logFileNameAlways(tp, name) == Some(name)

\* logFileName: None in pipe-capture mode, the temporary file's name otherwise
logFileNameOf(tp, name) == IF tp THEN None ELSE Some(name)

\* the capture target is chosen: subprocess.PIPE, or a new temporary log file
\* that the call opens and whose name it keeps
OpenLog ==
    /\ pc = "runcmd"
    /\ LET name == NewTmpName(cmdLine[1], ".log")
       IN  /\ logFileName' = logFileNameOf(toPipe, name)
           /\ files' = IF toPipe THEN files ELSE WithFile(files, name, <<>>)
           /\ openFds' = IF toPipe THEN openFds ELSE openFds \cup {"logFile"}
    /\ pc' = "popen"
    /\ UNCHANGED <<exportName, peer, callVars, returncode, waited>>
    /\ UNCHANGED <<procVars, localVars, countVars>>

\* subprocess.Popen(cmdLine, stderr=logFile, stdout=logFile): the helper is
\* spawned; in pipe-capture mode the call holds the read ends of two pipes
Popen ==
    /\ pc = "popen"
    /\ helper' = "running"
    /\ \E pid \in SpawnPids : childPid' = pid
    /\ returncode' = None
    /\ spawnCount' = spawnCount + 1
    /\ openFds' =
          IF toPipe THEN openFds \cup {"p.stdout", "p.stderr"} ELSE openFds
    /\ waited' = 0
    /\ pc' = "wait"
    /\ UNCHANGED <<exportName, peer, callVars, logFileName, files, exitCode, pipes,
                   server>>
    /\ UNCHANGED <<localVars, pidReads, reports>>

\* p.wait(5) returns: the helper has exited and p.returncode is set
WaitReturn ==
    /\ pc = "wait"
    /\ helper = "exited"
    /\ returncode' = Some(exitCode)
    /\ waited' = 0
    /\ pc' = "classify"
    /\ UNCHANGED <<exportName, peer, callVars, logFileName, files, openFds>>
    /\ UNCHANGED <<procVars, localVars, countVars>>

\* p.wait(5) raises subprocess.TimeoutExpired: the helper has not exited
\* within the bound; the exception leaves the with block
WaitTimeout ==
    /\ pc = "wait"
    /\ helper \in {"running", "blocked"}
    /\ waited >= WaitBound
    /\ exc' = Some(BuiltinError("TimeoutExpired", <<>>))
    /\ reports' = reports + 1
    /\ waited' = 0
    /\ pc' = "exit"
    /\ UNCHANGED <<exportName, peer, callVars, logFileName, files, openFds>>
    /\ UNCHANGED <<procVars, returncode, out, err, handle, result, extentMap>>
    /\ UNCHANGED <<spawnCount, pidReads>>

ExitedOkAlways(rc) == TRUE

\* the test on p.returncode that separates failure from success
ExitedOk(rc) == rc = Some(0)

failureNoSecondary(tp, fs, p, logName, prog) ==
    ProcessError("Unable to start", prog, <<>>)

\* the exception raised on a non-zero exit: the diagnostics are read from
\* the pipes or from the log file, and only err enters the message
failure(tp, fs, p, logName, prog) ==
    LET r == IF tp THEN readpipe(p) ELSE readlog(fs, logName, prog)
        e == IF tp THEN r.val[2] ELSE r.val
    IN  IF ~r.ok THEN r.exc ELSE ProcessError("Unable to start", prog, e)

FailedNextRetry == "popen"

\* where control goes after a raise inside the with block: to its exit
FailedNext == "exit"

\* returncode != 0: p.wait(5) again (it returns at once), then the raise
ClassifyFail ==
    /\ pc = "classify"
    /\ ~ExitedOk(returncode)
    /\ exc' = Some(failure(toPipe, files, pipes,
                           IF toPipe THEN "" ELSE Get(logFileName),
                           cmdLine[1]))
    /\ reports' = reports + 1
    /\ pc' = FailedNext
    /\ UNCHANGED <<exportName, peer, callVars, logFileName, files, openFds>>
    /\ UNCHANGED <<procVars, returncode, waited, out, err, handle, result,
                   extentMap>>
    /\ UNCHANGED <<spawnCount, pidReads>>

\* returncode == 0: in pipe-capture mode out and err are read from the pipes
ClassifyOk ==
    /\ pc = "classify"
    /\ ExitedOk(returncode)
    /\ IF toPipe
       THEN LET r == readpipe(pipes)
            IN  IF r.ok
                THEN /\ out' = Some(r.val[1])
                     /\ err' = Some(r.val[2])
                     /\ pc' = "readpid"
                     /\ UNCHANGED <<exc, reports>>
                ELSE /\ exc' = Some(r.exc)
                     /\ reports' = reports + 1
                     /\ pc' = FailedNext
                     /\ UNCHANGED <<out, err>>
       ELSE /\ pc' = "readpid"
            /\ UNCHANGED <<out, err, exc, reports>>
    /\ UNCHANGED <<exportName, peer, callVars, logFileName, files, openFds>>
    /\ UNCHANGED <<procVars, returncode, waited, handle, result, extentMap>>
    /\ UNCHANGED <<spawnCount, pidReads>>

realPidSpawned(pf, fs, spawned) == Returned(spawned)

\* realPid: int() of the pid-file's stripped content when a pid-file is
\* given (int() raises ValueError on a text that is no integer), p.pid
\* otherwise
realPid(pf, fs, spawned) ==
    IF pf # None
    THEN LET r == readlog(fs, Get(pf), "")
         IN  IF ~r.ok THEN r
             ELSE IF ~IsInt(r.val)
             THEN Raised(BuiltinError("ValueError", r.val))
             ELSE Returned(IntValue(r.val))
    ELSE Returned(spawned)

\* the pid is resolved and the processInfo is built
ResolvePid ==
    /\ pc = "readpid"
    /\ pidReads' = IF pidFile # None THEN pidReads + 1 ELSE pidReads
    /\ LET r == realPid(pidFile, files, childPid)
       IN  IF r.ok
           THEN /\ handle' = Some(processInfo(r.val, logFileName, err, out))
                /\ pc' = "exit"
                /\ UNCHANGED <<exc, reports>>
           ELSE /\ exc' = Some(r.exc)
                /\ reports' = reports + 1
                /\ pc' = FailedNext
                /\ UNCHANGED handle
    /\ UNCHANGED <<exportName, peer, callVars, logFileName, files, openFds>>
    /\ UNCHANGED <<procVars, returncode, waited, out, err, result, extentMap,
                   spawnCount>>

\* Popen.__exit__, first part: the pipes the call holds are closed
PopenExitClose ==
    /\ pc = "exit"
    /\ openFds' = openFds \ {"p.stdout", "p.stderr"}
    /\ pc' = "exit_wait"
    /\ UNCHANGED <<exportName, peer, callVars, logFileName, files, returncode>>
    /\ UNCHANGED <<procVars, waited, localVars, countVars>>

\* Popen.__exit__, second part: self.wait() with no timeout, then the call
\* returns the processInfo or the exception propagates to the caller.
\* runcmd never closes logFile: on return the runtime may finalize the
\* file object at once or later; while an exception propagates, its
\* traceback keeps the frame and the file object alive.
PopenExitWait ==
    /\ pc = "exit_wait"
    /\ helper = "exited"
    /\ returncode' = Some(exitCode)
    /\ result' = IF exc = None THEN "returned" ELSE "raised"
    /\ \E finalized \in (IF exc = None THEN BOOLEAN ELSE {FALSE}) :
          /\ openFds' = IF finalized THEN openFds \ {"logFile"} ELSE openFds
          /\ files' = IF finalized /\ logFileName # None
                      THEN Closed(files, Get(logFileName))
                      ELSE files
    /\ waited' = 0
    /\ pc' = "done"
    /\ UNCHANGED <<exportName, peer, callVars, logFileName>>
    /\ UNCHANGED <<procVars, out, err, handle, exc, extentMap, countVars>>

----------------------------------------------------------------------------
(* map: the introspection tool is run through the shell, not through runcmd *)

\* the command is built and subprocess.run spawns it with two pipes
map ==
    /\ pc = "idle"
    /\ \E metaContext \in MetaContexts, uri \in Uris :
          /\ call' = [op |-> "map", opt |-> metaContext]
          /\ cmdLine' = mapCmd(metaContext, uri)
    /\ helper' = "running"
    /\ \E pid \in SpawnPids : childPid' = pid
    /\ spawnCount' = spawnCount + 1
    /\ openFds' = openFds \cup {"p.stdout", "p.stderr"}
    /\ pc' = "map_run"
    /\ UNCHANGED <<exportName, peer, pidFile, toPipe, logFileName, files, exitCode,
                   server>>
    /\ UNCHANGED <<pipes, returncode, waited, localVars, pidReads, reports>>

MapErrTexts == {<<>>, <<"e">>}

\* the introspection tool exits, having written o to stdout and e to stderr
NbdinfoExit ==
    /\ pc = "map_run"
    /\ helper = "running"
    /\ \E code \in ExitCodes, o \in JsonTexts, e \in MapErrTexts :
          /\ exitCode' = code
          /\ pipes' = [out |-> o, err |-> e]
    /\ helper' = "exited"
    /\ UNCHANGED <<exportName, peer, callVars, pc, logFileName, files, openFds>>
    /\ UNCHANGED <<childPid, server, returncode, waited, localVars, countVars>>

\* subprocess.run(check=True) returns or raises CalledProcessError, then
\* json.loads decodes the standard output
MapReturn ==
    /\ pc = "map_run"
    /\ helper = "exited"
    /\ returncode' = Some(exitCode)
    /\ openFds' = openFds \ {"p.stdout", "p.stderr"}
    /\ LET r == IF exitCode # 0
                THEN Raised(BuiltinError("CalledProcessError", pipes.err))
                ELSE jsonLoads(pipes.out)
       IN  IF r.ok
           THEN /\ extentMap' = Some(r.val)
                /\ result' = "returned"
                /\ UNCHANGED <<exc, reports>>
           ELSE /\ exc' = Some(r.exc)
                /\ reports' = reports + 1
                /\ result' = "raised"
                /\ UNCHANGED extentMap
    /\ pc' = "done"
    /\ UNCHANGED <<exportName, peer, callVars, logFileName, files, procVars>>
    /\ UNCHANGED <<waited, out, err, handle, spawnCount, pidReads>>

----------------------------------------------------------------------------
(* The environment: time, the helper process and the files it writes *)

Blocked == pc \in {"wait", "exit_wait"}

\* the call in progress is a launch through runcmd (not map, not idle)
IsLaunch == call.op \notin {"none", "map"}

\* a unit of time passes while the call is blocked on a running helper
Tick ==
    /\ Blocked
    /\ helper \in {"running", "blocked"}
    /\ waited < (IF pc = "wait" THEN WaitBound ELSE MaxTime)
    /\ waited' = waited + 1
    /\ UNCHANGED <<exportName, peer, callVars, pc, logFileName, files, openFds>>
    /\ UNCHANGED <<procVars, returncode, localVars, countVars>>

\* whether the helper backgrounds itself: qemu-nbd with --fork, and nbdkit
\* (which forks into the background unless told otherwise)
Forks(cmd) ==
    \/ \E i \in 1..Len(cmd) : cmd[i] = "--fork"
    \/ cmd[1] = "nbdkit"

\* the helper exits with a code, having written o to its stdout and e to
\* its stderr: both reach the log file in file-capture mode, the pipes in
\* pipe-capture mode (unless their read ends are closed already).  The
\* parent of a backgrounding helper exits 0 once the server it forked is
\* ready, and non-zero when the server could not be started.
HelperExitWith(outputs) ==
    /\ helper = "running"
    /\ pc \in {"wait", "exit", "exit_wait"}
    /\ \E code \in ExitCodes, oe \in outputs :
          /\ exitCode' = code
          /\ files' = IF toPipe THEN files
                      ELSE WithFile(files, Get(logFileName), oe[1] \o oe[2])
          /\ pipes' = IF toPipe /\ "p.stdout" \in openFds
                      THEN [out |-> oe[1], err |-> oe[2]]
                      ELSE pipes
          /\ server' = IF Forks(cmdLine) /\ code = 0 THEN "running" ELSE server
    /\ helper' = "exited"
    /\ UNCHANGED <<exportName, peer, callVars, pc, logFileName, openFds, childPid>>
    /\ UNCHANGED <<returncode, waited, localVars, countVars>>

HelperExit == HelperExitWith(HelperOutputs)

\* in pipe-capture mode the helper has written more than the pipe buffer
\* holds and blocks in write(): runcmd reads the pipes only after p.wait(5)
\* has returned, so nothing drains them while it waits
HelperFillPipe ==
    /\ IsLaunch
    /\ toPipe
    /\ helper = "running"
    /\ pc = "wait"
    /\ {"p.stdout", "p.stderr"} \subseteq openFds
    /\ helper' = "blocked"
    /\ UNCHANGED <<exportName, peer, callVars, pc, logFileName, files, openFds>>
    /\ UNCHANGED <<exitCode, childPid, server, pipes>>
    /\ UNCHANGED <<returncode, waited, localVars, countVars>>

\* p.returncode of a process killed by SIGPIPE
SigPipeExit == -13

\* the read ends are closed (Popen.__exit__): the blocked write fails; the
\* helper is killed by SIGPIPE, or sees EPIPE and exits by itself; what it
\* wrote is lost
HelperEpipe ==
    /\ helper = "blocked"
    /\ openFds \cap {"p.stdout", "p.stderr"} = {}
    /\ \E code \in ExitCodes \cup {SigPipeExit} :
          /\ exitCode' = code
          /\ server' = IF Forks(cmdLine) /\ code = 0 THEN "running" ELSE server
    /\ helper' = "exited"
    /\ UNCHANGED <<exportName, peer, callVars, pc, logFileName, files, openFds>>
    /\ UNCHANGED <<childPid, pipes, returncode, waited, localVars, countVars>>

\* the helper (or the server it forked) creates or fills the pid-file
HelperWritePidWith(texts) ==
    /\ helper # "none"
    /\ pc \in {"wait", "classify", "readpid"}
    /\ pidFile # None
    /\ \E content \in texts :
          /\ IF Get(pidFile) \in DOMAIN files
             THEN files[Get(pidFile)] = <<>> /\ content # <<>>
             ELSE TRUE
          /\ files' = WithFile(files, Get(pidFile), content)
    /\ UNCHANGED <<exportName, peer, callVars, pc, logFileName, openFds>>
    /\ UNCHANGED <<procVars, returncode, waited, localVars, countVars>>

HelperWritePid == HelperWritePidWith(PidTexts)

----------------------------------------------------------------------------
(* A second launch call, made from another thread while the first is in   *)
(* progress.  It runs the same code; of its run the model keeps what      *)
(* touches the file system the two calls share.                           *)

\* what the second call's helper writes to its pid-file
PeerPidTexts == {<<"1">>}

\* the variables of the first call, which no step of the second touches
mainVars ==
    <<exportName, callVars, pc, logFileName, openFds, procVars, returncode,
      waited, localVars, countVars>>

\* with two calls in progress the helper of the first is quiet: what it
\* logs goes to the first call's own log file whatever the text is
PairHelperExit == HelperExitWith({<<<<>>, <<>>>>})

\* the second call enters one of the builders: startBackupNbdServer takes
\* the pid-file path from its socket file, startNbdkitProcess creates a
\* temporary pid-file, create has none
PeerEnter ==
    /\ peer.st = "idle"
    /\ \/ \E socketFile \in PeerSocketFiles :
            /\ peer' = [peer EXCEPT !.st = "runcmd",
                                    !.op = "startBackupNbdServer",
                                    !.socket = Some(socketFile),
                                    !.pidFile = Some(backupPidFile(socketFile))]
            /\ UNCHANGED files
       \/ LET pidF == NewTmpName("nbdkit", ".pid")
          IN  /\ peer' = [peer EXCEPT !.st = "runcmd",
                                      !.op = "startNbdkitProcess",
                                      !.pidFile = Some(pidF)]
              /\ files' = Closed(WithFile(files, pidF, <<>>), pidF)
       \/ /\ peer' = [peer EXCEPT !.st = "runcmd", !.op = "create"]
          /\ UNCHANGED files
    /\ UNCHANGED mainVars

\* the program the second call runs
PeerProgram == IF peer.op = "startNbdkitProcess" THEN "nbdkit"
               ELSE IF peer.op = "create" THEN "qemu-img"
               ELSE "qemu-nbd"

\* the second call creates its log file (the builders capture to a file)
\* and spawns its helper
PeerOpenLog ==
    /\ peer.st = "runcmd"
    /\ LET name == NewTmpName(PeerProgram, ".log")
       IN  /\ peer' = [peer EXCEPT !.st = "wait", !.logFile = Some(name)]
           /\ files' = WithFile(files, name, <<>>)
    /\ UNCHANGED mainVars

\* the second call's helper creates or fills its pid-file
PeerHelperWritePid ==
    /\ peer.st = "wait"
    /\ peer.pidFile # None
    /\ ~peer.wrote
    /\ \E content \in PeerPidTexts :
          /\ IF Get(peer.pidFile) \in DOMAIN files
             THEN files[Get(peer.pidFile)] = <<>>
             ELSE TRUE
          /\ files' = WithFile(files, Get(peer.pidFile), content)
    /\ peer' = [peer EXCEPT !.wrote = TRUE]
    /\ UNCHANGED mainVars

\* the second call returns or raises
PeerDone ==
    /\ peer.st = "wait"
    /\ peer' = [peer EXCEPT !.st = "done"]
    /\ UNCHANGED <<files, mainVars>>

----------------------------------------------------------------------------
(* Specification *)

Next ==
    \/ create
    \/ startRestoreNbdServer
    \/ startNbdkitProcess
    \/ startBackupNbdServer
    \/ disconnect
    \/ runcmd
    \/ OpenLog
    \/ Popen
    \/ WaitReturn
    \/ WaitTimeout
    \/ ClassifyFail
    \/ ClassifyOk
    \/ ResolvePid
    \/ PopenExitClose
    \/ PopenExitWait
    \/ Tick
    \/ HelperExit
    \/ HelperWritePid
    \/ HelperFillPipe
    \/ HelperEpipe
    \/ map
    \/ NbdinfoExit
    \/ MapReturn

Spec == Init /\ [][Next]_vars

\* two launch calls at a time
NextPair ==
    \/ create
    \/ startRestoreNbdServer
    \/ startNbdkitProcess
    \/ startBackupNbdServer
    \/ disconnect
    \/ runcmd
    \/ OpenLog
    \/ Popen
    \/ WaitReturn
    \/ ClassifyFail
    \/ ClassifyOk
    \/ ResolvePid
    \/ PopenExitClose
    \/ PopenExitWait
    \/ PairHelperExit
    \/ HelperWritePid
    \/ PeerEnter
    \/ PeerOpenLog
    \/ PeerHelperWritePid
    \/ PeerDone

SpecPair == Init /\ [][NextPair]_vars

----------------------------------------------------------------------------
(* Properties *)

\* the pid-file as the call read it: HelperWritePid does not act after the
\* read, so from then on the file holds what the read saw
PidFileIsInt ==
    /\ Get(pidFile) \in DOMAIN files
    /\ Decodable(files[Get(pidFile)])
    /\ IsInt(files[Get(pidFile)])

\* C1: a handle built by a launch (the process exited 0) has, in
\* file-capture mode, logFile set and out and err unset, and in pipe-capture
\* mode, out and err set and logFile unset.
C1_CaptureExclusive ==
    (IsLaunch /\ handle # None) =>
        /\ exitCode = 0
        /\ IF toPipe
           THEN /\ Get(handle).out # None
                /\ Get(handle).err # None
                /\ Get(handle).logFile = None
           ELSE /\ Get(handle).logFile # None
                /\ Get(handle).out = None
                /\ Get(handle).err = None

\* a pipe-capture launch has returned a handle carrying the helper's output
C1_Witness ==
    /\ IsLaunch
    /\ result = "returned"
    /\ toPipe
    /\ Get(handle).out = Some(<<"e">>)
    /\ Get(handle).logFile = None

\* C2: a launch whose process exited non-zero ends by raising ProcessError
\* whose message holds the program name and a non-empty diagnostic text.
C2_FailureHasDiagnostic ==
    (IsLaunch /\ pc = "done" /\ exitCode # 0) =>
        /\ result = "raised"
        /\ exc # None
        /\ Get(exc).kind = "ProcessError"
        /\ Get(exc).cmd = cmdLine[1]
        /\ Get(exc).detail # <<>>

\* C3: a handle built by a launch that was given a pid-file carries the
\* integer the pid-file holds (whatever the spawned process's identifier).
C3_PidFromPidFile ==
    (IsLaunch /\ handle # None /\ pidFile # None) =>
        /\ PidFileIsInt
        /\ Get(handle).pid = IntValue(files[Get(pidFile)])
        /\ (files[Get(pidFile)] = <<" ", "1">> => Get(handle).pid = 1)
        /\ (files[Get(pidFile)] = <<"-", "1">> => Get(handle).pid = 0 - 1)

\* a launch returned the pid-file's integer, which differs from p.pid
C3_Witness ==
    /\ IsLaunch
    /\ result = "returned"
    /\ pidFile # None
    /\ files[Get(pidFile)] = <<"1", "1">>
    /\ Get(handle).pid = 11
    /\ childPid = 7

\* C4: a launch that read its pid-file after an exit 0 and found it absent,
\* empty or non-numeric ends by raising ProcessError, with no handle.
C4_BadPidFileRaisesProcessError ==
    (IsLaunch /\ pc = "done" /\ pidReads = 1 /\ exitCode = 0
        /\ ~PidFileIsInt) =>
        /\ result = "raised"
        /\ handle = None
        /\ Get(exc).kind = "ProcessError"

\* C5: every handle returned by a launch (the process exited 0) has a
\* non-negative pid.
C5_PidNonNegative ==
    (IsLaunch /\ result = "returned") =>
        /\ exitCode = 0
        /\ Get(handle).pid >= 0

\* C6: a launch ends either Succeeded (a handle, no exception) or Failed
\* (ProcessError raised, no handle), and in no other way.
C6_SucceededOrProcessError ==
    (IsLaunch /\ pc = "done") =>
        \/ result = "returned" /\ handle # None /\ exc = None
        \/ /\ result = "raised"
           /\ handle = None
           /\ exc # None
           /\ Get(exc).kind = "ProcessError"

\* C7: no blocking wait of a launch lasts longer than the wait bound.
C7_BlockedWithinWaitBound ==
    (IsLaunch /\ Blocked) => waited <= WaitBound

\* C8: a launch spawns its helper exactly once; once an exception is raised
\* the call spawns nothing, reads no pid-file, raises nothing more and never
\* builds or returns a handle.
C8_NoRetries ==
    [][IsLaunch' =>
        /\ spawnCount' <= 1
        /\ (pc' = "done" => spawnCount' = 1)
        /\ (result' = "raised" => reports' = 1)
        /\ (exc # None =>
              /\ exc' = exc
              /\ spawnCount' = spawnCount
              /\ pidReads' = pidReads
              /\ reports' = reports
              /\ handle' = None
              /\ result' # "returned")]_vars

\* a launch failed on reading its pid-file, after one spawn and one read
C8_Witness ==
    /\ IsLaunch
    /\ result = "raised"
    /\ spawnCount = 1
    /\ pidReads = 1
    /\ reports = 1

Tokens == {cmdLine[i] : i \in 1..Len(cmdLine)}

\* C9, as claimed: no argument vector holds an empty or placeholder token;
\* without a bitmap, start-backup-server has no token in the bitmap
\* position (13 tokens); without a metadata context, map has the plain flag.
C9_NoPlaceholderToken ==
    /\ Tokens \cap {"", "--", "--bitmap=", "--map="} = {}
    /\ (call.op = "startBackupNbdServer" /\ call.opt = None) =>
          Len(cmdLine) = 13
    /\ (call.op = "map" /\ call.opt = None) => cmdLine[3] = "--map"

\* C9, amended: no argument vector holds an empty token or an option with
\* an empty value; start-backup-server always has 14 tokens, the last one
\* being "--bitmap=<name>" with a bitmap and the end-of-options token "--"
\* without one; map has "--map=<context>" with a metadata context and the
\* plain "--map" without one.
C9_NoEmptyToken ==
    /\ Tokens \cap {"", "--bitmap=", "--map="} = {}
    /\ call.op = "startBackupNbdServer" =>
          /\ Len(cmdLine) = 14
          /\ cmdLine[14] =
                IF call.opt = None THEN "--" ELSE "--bitmap=" \o Get(call.opt)
    /\ call.op # "startBackupNbdServer" => "--" \notin Tokens
    /\ call.op = "map" =>
          cmdLine[3] =
             IF call.opt = None THEN "--map" ELSE "--map=" \o Get(call.opt)

\* start-backup-server was called without a bitmap
C9_Witness ==
    /\ call.op = "startBackupNbdServer"
    /\ call.opt = None
    /\ cmdLine[14] = "--"

\* C10: when a launch has returned or raised, it holds no open file object
\* and no open pipe.
C10_AllClosedAtEnd ==
    (IsLaunch /\ pc = "done") => openFds = {}

\* C12: a map call whose tool exited 0 returns exactly the value decoded
\* from its standard output when that is valid JSON, and raises
\* JSONDecodeError, never ProcessError, and returns nothing when it is not.
C12_MapDecodesOrRaises ==
    (call.op = "map" /\ pc = "done" /\ exitCode = 0) =>
        /\ IF jsonLoads(pipes.out).ok
           THEN /\ result = "returned"
                /\ exc = None
                /\ extentMap = Some(jsonLoads(pipes.out).val)
           ELSE /\ result = "raised"
                /\ extentMap = None
                /\ Get(exc).kind = "JSONDecodeError"
        /\ (pipes.out = <<"[", "]">> => extentMap = Some(JsonArray(<<>>)))
        /\ (pipes.out = <<"1", "1">> => extentMap = Some(JsonNumber(11)))
        /\ (pipes.out = <<" ", "1">> => extentMap = Some(JsonNumber(1)))
        /\ (pipes.out \in {<<>>, <<"[">>, <<"]", "[">>, <<"1", "[">>} =>
              result = "raised" /\ extentMap = None)

\* map returned the array decoded from "[]"
C12_Witness ==
    /\ call.op = "map"
    /\ result = "returned"
    /\ pipes.out = <<"[", "]">>
    /\ extentMap = Some(JsonArray(<<>>))

\* C13: a map call whose tool exited non-zero raises ProcessError carrying
\* the program name and the diagnostic text.
C13_MapFailureIsProcessError ==
    (call.op = "map" /\ pc = "done" /\ exitCode # 0) =>
        /\ result = "raised"
        /\ Get(exc).kind = "ProcessError"
        /\ Get(exc).cmd = cmdLine[1]

\* C15: start-restore-server and start-backup-server both give runcmd a
\* pid-file, and the pid of a handle they return is the pid-file's integer.
C15_BackgroundingUsesPidFile ==
    (call.op \in {"startRestoreNbdServer", "startBackupNbdServer"}) =>
        /\ pidFile # None
        /\ (result = "returned" =>
              /\ PidFileIsInt
              /\ Get(handle).pid = IntValue(files[Get(pidFile)]))

\* C16: a launch reads its pid-file at most once, only after the wait saw
\* exit code 0 and, in pipe-capture mode, after both pipes were read; after
\* a non-zero exit it never reads it; a handle is built only after exit
\* code 0 was seen and, with a pid-file, after the read.
C16_PidReadOrder ==
    IsLaunch =>
        /\ pidReads <= 1
        /\ (pidReads = 1 =>
              /\ pidFile # None
              /\ returncode = Some(0)
              /\ (toPipe => out # None /\ err # None))
        /\ (handle # None =>
              /\ returncode = Some(0)
              /\ (pidFile # None => pidReads = 1))
        /\ ((returncode # None /\ returncode # Some(0)) =>
              pidReads = 0 /\ handle = None)

\* a pipe-capture launch read its pid-file once and returned a handle
C16_Witness ==
    /\ IsLaunch
    /\ toPipe
    /\ pidFile # None
    /\ result = "returned"
    /\ pidReads = 1

\* C17: after a non-zero exit seen by the wait in file-capture mode, the
\* call raises once and returns no handle: the primary ProcessError with
\* the stripped content of its own log when the log could be read, the
\* secondary ProcessError with the program name and the read error when not.
C17_LogReadFailure ==
    (IsLaunch /\ ~toPipe /\ pc = "done" /\ exitCode # 0
        /\ Get(exc).kind # "TimeoutExpired") =>
        /\ result = "raised"
        /\ handle = None
        /\ reports = 1
        /\ exc =
              IF Decodable(files[Get(logFileName)])
              THEN Some(ProcessError("Unable to start", cmdLine[1],
                                     Strip(files[Get(logFileName)])))
              ELSE Some(ProcessError("Error executing", cmdLine[1],
                                     DecodeErrorText))

\* a file-capture launch raised the secondary error: its log was unreadable
C17_Witness ==
    /\ IsLaunch
    /\ ~toPipe
    /\ pc = "done"
    /\ exitCode # 0
    /\ ~Decodable(files[Get(logFileName)])
    /\ Get(exc).fmt = "Error executing"

Builders ==
    {"create", "startRestoreNbdServer", "startNbdkitProcess",
     "startBackupNbdServer", "disconnect"}

\* C20: a launch through a command builder runs in file-capture mode: it
\* holds no pipe, its handle has logFile set and out and err unset, and the
\* text of its "Unable to start" failure is the stripped content of its log.
C20_BuildersFileCapture ==
    (call.op \in Builders) =>
        /\ ~toPipe
        /\ openFds \cap {"p.stdout", "p.stderr"} = {}
        /\ pipes = [out |-> <<>>, err |-> <<>>]
        /\ (handle # None =>
              /\ Get(handle).logFile = logFileName
              /\ logFileName # None
              /\ Get(handle).out = None
              /\ Get(handle).err = None)
        /\ ((exc # None /\ Get(exc).fmt = "Unable to start") =>
              Get(exc).detail = Strip(files[Get(logFileName)]))

\* disconnect failed with the text its tool wrote to the log
C20_Witness ==
    /\ call.op = "disconnect"
    /\ result = "raised"
    /\ Get(exc).fmt = "Unable to start"
    /\ Get(exc).detail = <<"e">>

\* C19: when a launch has raised, no process it started is still running:
\* neither the spawned helper nor a server the helper forked.
C19_FailedLeavesNoProcess ==
    (IsLaunch /\ result = "raised") =>
        /\ helper # "running"
        /\ server = "none"

\* C18: in pipe-capture mode a helper that writes its output and then exits
\* is never left blocked on a full pipe for the whole wait of the launcher.
C18_NeverBlockedOnFullPipe ==
    (IsLaunch /\ toPipe) =>
        ~(pc = "wait" /\ helper = "blocked" /\ waited >= WaitBound)

\* C14: the log file a launch created and the pid-file start-plugin-host
\* allocated exist from their creation on, also after the call has returned
\* or raised and after their file objects were finalized; they are two
\* files, each created under a name no existing file had.
C14_TmpFilesPersist ==
    IsLaunch =>
        /\ (logFileName # None => Get(logFileName) \in DOMAIN files)
        /\ (call.op = "startNbdkitProcess" =>
              /\ Get(pidFile) \in DOMAIN files
              /\ (logFileName # None =>
                    /\ Get(logFileName) # Get(pidFile)
                    /\ Cardinality(DOMAIN files) = 2))
        /\ (pc = "done" /\ ~toPipe => logFileName # None)

\* start-plugin-host returned, the log's file object was finalized, and the
\* log and the pid-file are both there
C14_Witness ==
    /\ call.op = "startNbdkitProcess"
    /\ result = "returned"
    /\ "logFile" \notin openFds
    /\ {Get(logFileName), Get(pidFile)} \subseteq DOMAIN files

\* both calls are in progress
BothInProgress ==
    /\ IsLaunch
    /\ pc # "done"
    /\ peer.st \in {"runcmd", "wait"}

\* the files each call uses: its log file and its pid-file
MainPaths == {Get(o) : o \in {logFileName, pidFile} \ {None}}
PeerPaths == {Get(o) : o \in {peer.logFile, peer.pidFile} \ {None}}

SamePidFile == pidFile # None /\ peer.pidFile = pidFile

\* both calls start a backup server on the same socket file
SameSocketBackup ==
    /\ call.op = "startBackupNbdServer"
    /\ peer.op = "startBackupNbdServer"
    /\ Get(peer.socket) \in Tokens

\* a step leaves the file at path as it is
FileUntouched(path) ==
    /\ path \in DOMAIN files <=> path \in DOMAIN files'
    /\ path \in DOMAIN files => files'[path] = files[path]

\* C11, as claimed: two launch calls in progress at the same time, whatever
\* their builders and arguments, use no file in common: their log files
\* differ and their pid-files differ.
C11_NoFileInCommon ==
    BothInProgress => MainPaths \cap PeerPaths = {}

\* C11: two launch calls in progress at the same time have different log
\* files, and the only file they can have in common is the pid-file of two
\* start-backup-server calls given the same socket file, which is
\* <socket>.pid for both; apart from that file, no step of one call creates
\* or changes a file the other call uses.
C11_IsolatedUnlessSameSocket ==
    /\ [](BothInProgress =>
            /\ SamePidFile <=> SameSocketBackup
            /\ MainPaths \cap PeerPaths =
                  (IF SameSocketBackup THEN {Get(pidFile)} ELSE {}))
    /\ [][\A path \in (MainPaths \cup PeerPaths)
                         \ (MainPaths \cap PeerPaths) :
              /\ (peer' # peer /\ path \in MainPaths) => FileUntouched(path)
              /\ (peer' = peer /\ path \in PeerPaths) => FileUntouched(path)
         ]_vars

\* two backup servers on different socket files: the second call's helper
\* has written its pid-file, and the first call has read its own
C11_Witness ==
    /\ BothInProgress
    /\ call.op = "startBackupNbdServer"
    /\ peer.op = "startBackupNbdServer"
    /\ ~SameSocketBackup
    /\ peer.wrote
    /\ pidReads = 1
    /\ handle # None

====
